---- MODULE Spec2Model ----
(***************************************************************************)
(* Connection lifecycle of nanofish's HttpServer (src/server.rs).          *)
(*                                                                         *)
(* The model follows HttpServer::serve and HttpServer::handle_connection   *)
(* statement by statement.  One loop iteration of serve is one             *)
(* "connection attempt"; the history variables (log, writes, counters...)  *)
(* describe the current iteration and are reset when the next iteration    *)
(* creates its TcpSocket.  The request buffer buf is declared outside the  *)
(* loop and is therefore NOT reset.                                        *)
(*                                                                         *)
(* Request bytes are modelled as line-sized tokens, response bytes as      *)
(* character strings.                                                      *)
(***************************************************************************)
EXTENDS Integers, Sequences, FiniteSets, TLC

VARIABLES
    pc,             \* position of the serve task
    open,           \* number of TcpSocket values currently alive
    sock,           \* state of the TcpSocket of this iteration
    buf,            \* the request buffer `buf` (REQ_SIZE cells)
    n,              \* number of bytes returned by this iteration's read
    readOutcome,    \* outcome of this iteration's read
    request,        \* the HttpRequest produced by the parser, if any
    fut,            \* state of the handler future of this iteration
    handlerOutcome, \* outcome of with_timeout(handler.handle_request)
    response,       \* the HttpResponse given to build_bytes, if any
    result,         \* the value returned by handle_connection, if any
    writes,         \* the write_all calls of this iteration, in order
    flushes,        \* the flush calls of this iteration, in order
    closes,         \* number of socket.close() calls of this iteration
    reads,          \* number of socket.read calls of this iteration
    parserCalls,    \* number of HttpRequest::try_from calls of this iteration
    parserInput,    \* the slice given to the parser, if any
    handlerCalls,   \* number of handle_request calls of this iteration
    log,            \* defmt events of this iteration, in order
    self,           \* the HttpServer: port and timeouts
    built,          \* the constructor call that built the server
    sockCfg,        \* port and timeout set on the TcpSocket of this iteration
    timer,          \* duration of the with_timeout / Timer being awaited
    acceptOutcome,  \* outcome of this iteration's accept
    rx              \* the bytes this iteration's read received, if any

vars == <<pc, open, sock, buf, n, readOutcome, request, fut, handlerOutcome,
          response, result, writes, flushes, closes, reads, parserCalls,
          parserInput, handlerCalls, log, self, built, sockCfg, timer,
          acceptOutcome, rx>>

(***************************************************************************)
(* Bounds of the model                                                     *)
(***************************************************************************)
\* size of the request buffer, in tokens (const generic REQ_SIZE)
REQ_SIZE == 3
\* capacity of the header list of an HttpRequest
MAX_HEADERS == 1

(***************************************************************************)
(* Program constants                                                       *)
(***************************************************************************)
\* const generic MAX_RESPONSE_SIZE as instantiated by SmallHttpServer
MAX_RESPONSE_SIZE == 1024

None == [none |-> TRUE]

\* A request "byte": tokens standing for the pieces the parser tells apart.
\*   REQ   a request line with a recognised method, a path and a version
\*   HDR   a header line with a name/value separator
\*   END   the empty line that ends the header block
\*   BAD   anything else (unrecognised method, line without separator,
\*         body bytes)
PeerByte == {"REQ", "HDR", "END", "BAD"}
\* NUL is the zero the buffer is initialised with
Byte == PeerByte \cup {"NUL"}

RECURSIVE SeqsUpTo(_, _)
SeqsUpTo(S, k) ==
    IF k = 0 THEN {<<>>}
    ELSE LET shorter == SeqsUpTo(S, k - 1)
         IN  shorter \cup {Append(s, b) : s \in {t \in shorter : Len(t) = k - 1}, b \in S}

\* what a peer can make one read return: 1..REQ_SIZE bytes
PeerData == SeqsUpTo(PeerByte, REQ_SIZE) \ {<<>>}

(***************************************************************************)
(* Error taxonomy and log events                                           *)
(***************************************************************************)
ParseError == "ParseError"
Overflow == "Overflow"
TransportError == "Transport"
Timeout == "Timeout"

Warn(msg) == [level |-> "warn", msg |-> msg]
Error(msg) == [level |-> "error", msg |-> msg]

(***************************************************************************)
(* Request Parser: HttpRequest::try_from(&[u8])                            *)
(* Scans the header block token by token, as the parser reads it line by   *)
(* line: hdrs is the header list built so far, i the next position.        *)
(***************************************************************************)
HttpRequest(headers, body) ==
    [method |-> "GET", path |-> "/", headers |-> headers, body |-> body]

RECURSIVE ParseHeaders(_, _, _)
ParseHeaders(bytes, i, hdrs) ==
    IF i > Len(bytes) THEN [ok |-> FALSE, err |-> ParseError]
    ELSE IF bytes[i] = "END"
         THEN [ok |-> TRUE,
               request |-> HttpRequest(hdrs, SubSeq(bytes, i + 1, Len(bytes)))]
    ELSE IF bytes[i] = "HDR"
         THEN IF Len(hdrs) >= MAX_HEADERS
              THEN [ok |-> FALSE, err |-> Overflow]
              ELSE ParseHeaders(bytes, i + 1, Append(hdrs, bytes[i]))
    ELSE [ok |-> FALSE, err |-> ParseError]

try_from(bytes) ==
    IF Len(bytes) = 0 \/ bytes[1] # "REQ"
    THEN [ok |-> FALSE, err |-> ParseError]
    ELSE ParseHeaders(bytes, 2, <<>>)

(***************************************************************************)
(* Responses: StatusCode, HttpHeader, ResponseBody, HttpResponse           *)
(***************************************************************************)
StatusCodes == {"Ok", "BadRequest", "NotFound", "InternalServerError"}

as_u16(status) ==
    CASE status = "Ok" -> 200
      [] status = "BadRequest" -> 400
      [] status = "NotFound" -> 404
      [] status = "InternalServerError" -> 500

reason_phrase(status) ==
    CASE status = "Ok" -> "OK"
      [] status = "BadRequest" -> "Bad Request"
      [] status = "NotFound" -> "Not Found"
      [] status = "InternalServerError" -> "Internal Server Error"

HttpHeader(name, value) == [name |-> name, value |-> value]

Text(str) == [kind |-> "Text", data |-> str]
Empty == [kind |-> "Empty", data |-> ""]

HttpResponse(status, headers, body) ==
    [status_code |-> status, headers |-> headers, body |-> body]

\* HandlerErrorResponse with the status of the timeout arm
HandlerErrorResponse_400 ==
    HttpResponse("BadRequest",
                 <<HttpHeader("Content-Type", "text/plain")>>,
                 Text("Internal Server Error"))

\* the response synthesized when the handler returns Err
HandlerErrorResponse ==
    HttpResponse("InternalServerError",
                 <<HttpHeader("Content-Type", "text/plain")>>,
                 Text("Internal Server Error"))

\* HandlerTimeoutResponse with the status of the error arm
HandlerTimeoutResponse_500 ==
    HttpResponse("InternalServerError",
                 <<HttpHeader("Content-Type", "text/plain")>>,
                 Text("Request Timeout"))

\* the response synthesized when the handler does not finish in time
HandlerTimeoutResponse ==
    HttpResponse("BadRequest",
                 <<HttpHeader("Content-Type", "text/plain")>>,
                 Text("Request Timeout"))

\* error_response with a Content-Length that counts one byte too many
error_response_BadLength ==
    "HTTP/1.1 500 Internal Server Error\r\nContent-Type: text/plain\r\nContent-Length: 22\r\n\r\nInternal Server Error"

\* the literal written when handle_connection returns Err
error_response ==
    "HTTP/1.1 500 Internal Server Error\r\nContent-Type: text/plain\r\nContent-Length: 21\r\n\r\nInternal Server Error"

RECURSIVE Rep(_, _)
Rep(str, k) == IF k = 0 THEN "" ELSE str \o Rep(str, k - 1)

\* a body that cannot fit in MAX_RESPONSE_SIZE bytes, whatever the headers
BigBody == Rep("0123456789abcdef", (MAX_RESPONSE_SIZE \div 16) + 1)

\* the responses a handler may return with Ok(..)
HandlerResponses ==
    { HttpResponse("Ok", <<HttpHeader("Content-Type", "text/plain")>>, Text("hello")),
      HttpResponse("NotFound", <<>>, Empty),
      HttpResponse("Ok", <<>>, Text(BigBody)),
      HandlerErrorResponse }

(***************************************************************************)
(* Response Builder: HttpResponse::build_bytes::<MAX_RESPONSE_SIZE>()      *)
(***************************************************************************)
RECURSIVE HeaderLines(_, _)
HeaderLines(headers, i) ==
    IF i > Len(headers) THEN ""
    ELSE headers[i].name \o ": " \o headers[i].value \o "\r\n"
         \o HeaderLines(headers, i + 1)

\* the full serialization: status line, headers in insertion order,
\* Content-Length, blank line, body
Serialize(resp) ==
    "HTTP/1.1 " \o ToString(as_u16(resp.status_code)) \o " "
    \o reason_phrase(resp.status_code) \o "\r\n"
    \o HeaderLines(resp.headers, 1)
    \o "Content-Length: " \o ToString(Len(resp.body.data)) \o "\r\n"
    \o "\r\n"
    \o resp.body.data

Fits(resp) == Len(Serialize(resp)) <= MAX_RESPONSE_SIZE

\* build_bytes returns a heapless Vec<u8, MAX_RESPONSE_SIZE>, never an error:
\* a response that fits is returned whole; for one that does not, the Vec
\* holds at most MAX_RESPONSE_SIZE bytes, from nothing at all to the longest
\* prefix that fits.
build_bytes(resp) ==
    IF Fits(resp) THEN {Serialize(resp)}
    ELSE {"", SubSeq(Serialize(resp), 1, MAX_RESPONSE_SIZE)}

(***************************************************************************)
(* ServerTimeouts and the constructors of HttpServer                       *)
(***************************************************************************)
ServerTimeouts_new(accept_timeout, read_timeout, handler_timeout) ==
    [accept_timeout |-> accept_timeout,
     read_timeout |-> read_timeout,
     handler_timeout |-> handler_timeout]

ServerTimeouts_default ==
    [accept_timeout |-> 10, read_timeout |-> 30, handler_timeout |-> 60]

new(port) == [port |-> port, timeouts |-> ServerTimeouts_default]

\* with_timeouts dropping the timeouts it is given
with_timeouts_Ignores(port, timeouts) ==
    [port |-> port, timeouts |-> ServerTimeouts_default]

with_timeouts(port, timeouts) == [port |-> port, timeouts |-> timeouts]

\* the constructor calls considered (those of the unit tests)
Constructions ==
    { [ctor |-> "new", port |-> 8080],
      [ctor |-> "new", port |-> 3000],
      [ctor |-> "with_timeouts", port |-> 8080,
       timeouts |-> ServerTimeouts_new(5, 15, 45)] }

Construct(c) ==
    IF c.ctor = "new" THEN new(c.port) ELSE with_timeouts(c.port, c.timeouts)

\* Duration::from_secs, Duration::from_millis
Secs(x) == [secs |-> x]
Millis(x) == [millis |-> x]

(***************************************************************************)
(* HttpServer::serve                                                       *)
(***************************************************************************)
Init ==
    /\ pc = "idle"
    /\ open = 0
    /\ sock = "none"
    /\ buf = [i \in 1..REQ_SIZE |-> "NUL"]
    /\ n = 0
    /\ readOutcome = "none"
    /\ request = None
    /\ fut = "none"
    /\ handlerOutcome = "none"
    /\ response = None
    /\ result = None
    /\ writes = <<>>
    /\ flushes = <<>>
    /\ closes = 0
    /\ reads = 0
    /\ parserCalls = 0
    /\ parserInput = None
    /\ handlerCalls = 0
    /\ log = <<>>
    /\ built \in Constructions
    /\ self = Construct(built)
    /\ sockCfg = None
    /\ timer = None
    /\ acceptOutcome = "none"
    /\ rx = None

\* the variables that belong to handle_connection and to the response
connVars == <<request, fut, handlerOutcome, response, result, writes,
              flushes, closes, parserCalls, parserInput, handlerCalls>>

\* the server itself: never assigned by serve (it only reads self.port and
\* self.timeouts)
cfgVars == <<self, built>>

\* NewSocket with the next accept started while the flush is still awaited
NewSocket_Early ==
    /\ pc \in {"idle", "flushing"}
    /\ pc' = "accepting"
    /\ open' = open + 1
    /\ sock' = "listening"
    /\ n' = 0
    /\ readOutcome' = "none"
    /\ request' = None
    /\ fut' = "none"
    /\ handlerOutcome' = "none"
    /\ response' = None
    /\ result' = None
    /\ writes' = <<>>
    /\ flushes' = <<>>
    /\ closes' = 0
    /\ reads' = 0
    /\ parserCalls' = 0
    /\ parserInput' = None
    /\ handlerCalls' = 0
    /\ log' = <<>>
    /\ UNCHANGED buf
    /\ sockCfg' = [port |-> self.port, timeout |-> Secs(self.timeouts.accept_timeout)]
    /\ timer' = None
    /\ acceptOutcome' = "none"
    /\ rx' = None
    /\ UNCHANGED cfgVars

\* NewSocket with the request buffer cleared for the new connection
NewSocket_ZeroBuf ==
    /\ pc = "idle"
    /\ pc' = "accepting"
    /\ open' = open + 1
    /\ sock' = "listening"
    /\ n' = 0
    /\ readOutcome' = "none"
    /\ request' = None
    /\ fut' = "none"
    /\ handlerOutcome' = "none"
    /\ response' = None
    /\ result' = None
    /\ writes' = <<>>
    /\ flushes' = <<>>
    /\ closes' = 0
    /\ reads' = 0
    /\ parserCalls' = 0
    /\ parserInput' = None
    /\ handlerCalls' = 0
    /\ log' = <<>>
    /\ buf' = [i \in 1..REQ_SIZE |-> "NUL"]
    /\ sockCfg' = [port |-> self.port, timeout |-> Secs(self.timeouts.accept_timeout)]
    /\ timer' = None
    /\ acceptOutcome' = "none"
    /\ rx' = None
    /\ UNCHANGED cfgVars

\* top of the loop: TcpSocket::new, set_timeout, socket.accept(..) is awaited
NewSocket ==
    /\ pc = "idle"
    /\ pc' = "accepting"
    /\ open' = open + 1
    /\ sock' = "listening"
    /\ n' = 0
    /\ readOutcome' = "none"
    /\ request' = None
    /\ fut' = "none"
    /\ handlerOutcome' = "none"
    /\ response' = None
    /\ result' = None
    /\ writes' = <<>>
    /\ flushes' = <<>>
    /\ closes' = 0
    /\ reads' = 0
    /\ parserCalls' = 0
    /\ parserInput' = None
    /\ handlerCalls' = 0
    /\ log' = <<>>
    /\ UNCHANGED buf
    /\ sockCfg' = [port |-> self.port, timeout |-> Secs(self.timeouts.accept_timeout)]
    /\ timer' = None
    /\ acceptOutcome' = "none"
    /\ rx' = None
    /\ UNCHANGED cfgVars

\* accept returned Ok(()): with_timeout(read_timeout, socket.read(&mut buf))
\* is awaited
AcceptOk ==
    /\ pc = "accepting"
    /\ pc' = "reading"
    /\ sock' = "connected"
    /\ reads' = reads + 1
    /\ UNCHANGED <<open, buf, n, readOutcome, log>>
    /\ UNCHANGED connVars
    /\ timer' = Secs(self.timeouts.read_timeout)
    /\ acceptOutcome' = "ok"
    /\ UNCHANGED <<sockCfg, rx>>
    /\ UNCHANGED cfgVars

\* AcceptErr without the Timer and the continue: falls through to the read
AcceptErr_FallsThrough(e) ==
    /\ pc = "accepting"
    /\ pc' = "reading"
    /\ sock' = "failed"
    /\ log' = Append(log, Warn("Accept error"))
    /\ reads' = reads + 1
    /\ timer' = Secs(self.timeouts.read_timeout)
    /\ acceptOutcome' = e
    /\ UNCHANGED <<open, buf, n, readOutcome, sockCfg, rx>>
    /\ UNCHANGED connVars
    /\ UNCHANGED cfgVars

\* accept returned Err(e), by timeout or transport error: warn, then the
\* 100 ms Timer is awaited
AcceptErr(e) ==
    /\ pc = "accepting"
    /\ pc' = "backoff"
    /\ sock' = "failed"
    /\ log' = Append(log, Warn("Accept error"))
    /\ UNCHANGED <<open, buf, n, readOutcome, reads>>
    /\ UNCHANGED connVars
    /\ timer' = Millis(100)
    /\ acceptOutcome' = e
    /\ UNCHANGED <<sockCfg, rx>>
    /\ UNCHANGED cfgVars

\* the Timer fired: continue (the socket goes out of scope)
BackoffDone ==
    /\ pc = "backoff"
    /\ pc' = "idle"
    /\ open' = open - 1
    /\ sock' = "dropped"
    /\ UNCHANGED <<buf, n, readOutcome, reads, log>>
    /\ UNCHANGED connVars
    /\ timer' = None
    /\ sockCfg' = None
    /\ UNCHANGED <<acceptOutcome, rx>>
    /\ UNCHANGED cfgVars

\* ReadZero with a warning logged, as on the other two failing arms
ReadZero_Warns ==
    /\ pc = "reading"
    /\ pc' = "idle"
    /\ n' = 0
    /\ readOutcome' = "zero"
    /\ log' = Append(log, Warn("Connection closed"))
    /\ open' = open - 1
    /\ sock' = "dropped"
    /\ UNCHANGED <<buf, reads>>
    /\ UNCHANGED connVars
    /\ timer' = None
    /\ sockCfg' = None
    /\ UNCHANGED <<acceptOutcome, rx>>
    /\ UNCHANGED cfgVars

\* Ok(Ok(0)): continue
ReadZero ==
    /\ pc = "reading"
    /\ pc' = "idle"
    /\ n' = 0
    /\ readOutcome' = "zero"
    /\ open' = open - 1
    /\ sock' = "dropped"
    /\ UNCHANGED <<buf, reads, log>>
    /\ UNCHANGED connVars
    /\ timer' = None
    /\ sockCfg' = None
    /\ UNCHANGED <<acceptOutcome, rx>>
    /\ UNCHANGED cfgVars

\* ReadErr without the warning
ReadErr_Silent ==
    /\ pc = "reading"
    /\ pc' = "idle"
    /\ n' = 0
    /\ readOutcome' = "err"
    /\ open' = open - 1
    /\ sock' = "dropped"
    /\ UNCHANGED <<buf, reads, log>>
    /\ UNCHANGED connVars
    /\ timer' = None
    /\ sockCfg' = None
    /\ UNCHANGED <<acceptOutcome, rx>>
    /\ UNCHANGED cfgVars

\* Ok(Err(e)): warn and continue
ReadErr ==
    /\ pc = "reading"
    /\ pc' = "idle"
    /\ n' = 0
    /\ readOutcome' = "err"
    /\ log' = Append(log, Warn("Read error"))
    /\ open' = open - 1
    /\ sock' = "dropped"
    /\ UNCHANGED <<buf, reads>>
    /\ UNCHANGED connVars
    /\ timer' = None
    /\ sockCfg' = None
    /\ UNCHANGED <<acceptOutcome, rx>>
    /\ UNCHANGED cfgVars

\* ReadTimeout issuing the read again instead of giving the connection up
ReadTimeout_Retry ==
    /\ pc = "reading"
    /\ readOutcome' = "timeout"
    /\ reads' = reads + 1
    /\ log' = Append(log, Warn("Socket read timeout"))
    /\ UNCHANGED <<pc, open, sock, buf, n, sockCfg, timer, acceptOutcome, rx>>
    /\ UNCHANGED connVars
    /\ UNCHANGED cfgVars

\* ReadTimeout answering the peer with the literal instead of continuing
ReadTimeout_Responds ==
    /\ pc = "reading"
    /\ pc' = "writing"
    /\ n' = 0
    /\ readOutcome' = "timeout"
    /\ log' = Append(log, Warn("Socket read timeout"))
    /\ result' = [ok |-> FALSE, err |-> Timeout]
    /\ writes' = Append(writes, [path |-> "literal", bytes |-> "timeout",
                                 status |-> "pending"])
    /\ UNCHANGED <<open, sock, buf, reads, request, fut, handlerOutcome,
                   response, flushes, closes, parserCalls, parserInput,
                   handlerCalls>>
    /\ timer' = None
    /\ UNCHANGED <<sockCfg, acceptOutcome, rx>>
    /\ UNCHANGED cfgVars

\* Err(_): the read did not complete within read_timeout: warn and continue
ReadTimeout ==
    /\ pc = "reading"
    /\ pc' = "idle"
    /\ n' = 0
    /\ readOutcome' = "timeout"
    /\ log' = Append(log, Warn("Socket read timeout"))
    /\ open' = open - 1
    /\ sock' = "dropped"
    /\ UNCHANGED <<buf, reads>>
    /\ UNCHANGED connVars
    /\ timer' = None
    /\ sockCfg' = None
    /\ UNCHANGED <<acceptOutcome, rx>>
    /\ UNCHANGED cfgVars

\* socket.read stores the bytes received at the start of buf and leaves the
\* rest of buf as it was
StoreRead(b, data) ==
    [i \in 1..REQ_SIZE |-> IF i <= Len(data) THEN data[i] ELSE b[i]]

\* ParserSlice passing the whole buffer instead of the bytes read
ParserSlice_Whole(b, k) == b

\* &buf[..n]: the slice handed to handle_connection
ParserSlice(b, k) == SubSeq(b, 1, k)

\* ReadOk reading again while the bytes received hold no end of headers
ReadOk_Again(data) ==
    IF \A i \in 1..Len(data) : data[i] # "END"
    THEN /\ pc = "reading"
         /\ buf' = StoreRead(buf, data)
         /\ n' = Len(data)
         /\ reads' = reads + 1
         /\ rx' = [bytes |-> data]
         /\ UNCHANGED <<pc, open, sock, readOutcome, log, sockCfg, timer,
                        acceptOutcome>>
         /\ UNCHANGED connVars
         /\ UNCHANGED cfgVars
    ELSE
           /\ pc = "reading"
           /\ buf' = StoreRead(buf, data)
           /\ n' = Len(data)
           /\ readOutcome' = "ok"
           /\ parserCalls' = parserCalls + 1
           /\ parserInput' = [bytes |-> ParserSlice(buf', n')]
           /\ LET parsed == try_from(ParserSlice(buf', n'))
              IN  IF parsed.ok
                  THEN /\ request' = parsed.request
                       /\ handlerCalls' = handlerCalls + 1
                       /\ fut' = "pending"
                       /\ pc' = "handling"
                       /\ UNCHANGED <<result, writes, log>>
                  ELSE /\ result' = [ok |-> FALSE, err |-> parsed.err]
                       /\ log' = Append(log, Error("Error handling request"))
                       /\ writes' = Append(writes, [path |-> "literal",
                                                    bytes |-> error_response,
                                                    status |-> "pending"])
                       /\ pc' = "writing"
                       /\ UNCHANGED <<request, handlerCalls, fut>>
           /\ UNCHANGED <<open, sock, reads, handlerOutcome, response, flushes, closes>>
           /\ rx' = [bytes |-> data]
           /\ timer' = IF try_from(ParserSlice(buf', n')).ok THEN Secs(self.timeouts.handler_timeout) ELSE None
           /\ UNCHANGED <<sockCfg, acceptOutcome>>
           /\ UNCHANGED cfgVars

\* Ok(Ok(n)) with n > 0: handle_connection(&buf[..n]) runs the parser.
\*   parse error: handle_connection returns Err(e); serve logs the error and
\*                awaits write_all(error_response)
\*   parsed:      with_timeout(handler_timeout, handle_request(&request))
\*                is awaited
ReadOk(data) ==
    /\ pc = "reading"
    /\ buf' = StoreRead(buf, data)
    /\ n' = Len(data)
    /\ readOutcome' = "ok"
    /\ parserCalls' = parserCalls + 1
    /\ parserInput' = [bytes |-> ParserSlice(buf', n')]
    /\ LET parsed == try_from(ParserSlice(buf', n'))
       IN  IF parsed.ok
           THEN /\ request' = parsed.request
                /\ handlerCalls' = handlerCalls + 1
                /\ fut' = "pending"
                /\ pc' = "handling"
                /\ UNCHANGED <<result, writes, log>>
           ELSE /\ result' = [ok |-> FALSE, err |-> parsed.err]
                /\ log' = Append(log, Error("Error handling request"))
                /\ writes' = Append(writes, [path |-> "literal",
                                             bytes |-> error_response,
                                             status |-> "pending"])
                /\ pc' = "writing"
                /\ UNCHANGED <<request, handlerCalls, fut>>
    /\ UNCHANGED <<open, sock, reads, handlerOutcome, response, flushes, closes>>
    /\ rx' = [bytes |-> data]
    /\ timer' = IF try_from(ParserSlice(buf', n')).ok THEN Secs(self.timeouts.handler_timeout) ELSE None
    /\ UNCHANGED <<sockCfg, acceptOutcome>>
    /\ UNCHANGED cfgVars

(***************************************************************************)
(* HttpServer::handle_connection, after the parser                         *)
(***************************************************************************)
\* handle_connection returns Ok(resp.build_bytes()); serve awaits
\* write_all(&response_bytes)
ReturnBuilt(resp, bytes) ==
    /\ response' = resp
    /\ result' = [ok |-> TRUE, bytes |-> bytes]
    /\ writes' = Append(writes, [path |-> "built", bytes |-> bytes,
                                 status |-> "pending"])
    /\ pc' = "writing"

\* Ok(Ok(response)): the handler returned a response in time
HandlerOk(resp, bytes) ==
    /\ pc = "handling"
    /\ fut = "pending"
    /\ bytes \in build_bytes(resp)
    /\ fut' = "done"
    /\ handlerOutcome' = "ok"
    /\ ReturnBuilt(resp, bytes)
    /\ UNCHANGED <<open, sock, buf, n, readOutcome, request, flushes, closes,
                   reads, parserCalls, parserInput, handlerCalls, log>>
    /\ timer' = None
    /\ UNCHANGED <<sockCfg, acceptOutcome, rx>>
    /\ UNCHANGED cfgVars

\* HandlerErr propagating the failure with `?` instead of synthesizing a
\* response: handle_connection returns Err and serve writes the literal
HandlerErr_Propagates(bytes) ==
    /\ pc = "handling"
    /\ fut = "pending"
    /\ bytes \in build_bytes(HandlerErrorResponse)
    /\ fut' = "done"
    /\ handlerOutcome' = "err"
    /\ result' = [ok |-> FALSE, err |-> "HandlerFailure"]
    /\ log' = Append(log, Error("Error handling request"))
    /\ writes' = Append(writes, [path |-> "literal", bytes |-> error_response,
                                 status |-> "pending"])
    /\ pc' = "writing"
    /\ UNCHANGED <<open, sock, buf, n, readOutcome, request, response, flushes,
                   closes, reads, parserCalls, parserInput, handlerCalls>>
    /\ timer' = None
    /\ UNCHANGED <<sockCfg, acceptOutcome, rx>>
    /\ UNCHANGED cfgVars

\* Ok(Err(e)): the handler returned a failure in time
HandlerErr(bytes) ==
    /\ pc = "handling"
    /\ fut = "pending"
    /\ bytes \in build_bytes(HandlerErrorResponse)
    /\ fut' = "done"
    /\ handlerOutcome' = "err"
    /\ log' = Append(log, Warn("Handler error"))
    /\ ReturnBuilt(HandlerErrorResponse, bytes)
    /\ UNCHANGED <<open, sock, buf, n, readOutcome, request, flushes, closes,
                   reads, parserCalls, parserInput, handlerCalls>>
    /\ timer' = None
    /\ UNCHANGED <<sockCfg, acceptOutcome, rx>>
    /\ UNCHANGED cfgVars

\* HandlerTimeout calling the handler again instead of giving up
HandlerTimeout_Retry(bytes) ==
    /\ pc = "handling"
    /\ fut = "pending"
    /\ bytes \in build_bytes(HandlerTimeoutResponse)
    /\ handlerCalls' = handlerCalls + 1
    /\ log' = Append(log, Warn("Request handling timed out"))
    /\ UNCHANGED <<pc, open, sock, buf, n, readOutcome, request, fut,
                   handlerOutcome, response, result, writes, flushes, closes,
                   reads, parserCalls, parserInput>>
    /\ UNCHANGED <<sockCfg, timer, acceptOutcome, rx>>
    /\ UNCHANGED cfgVars

\* Err(_): handler_timeout expired; with_timeout drops the handler future
HandlerTimeout(bytes) ==
    /\ pc = "handling"
    /\ fut = "pending"
    /\ bytes \in build_bytes(HandlerTimeoutResponse)
    /\ fut' = "dropped"
    /\ handlerOutcome' = "timeout"
    /\ log' = Append(log, Warn("Request handling timed out"))
    /\ ReturnBuilt(HandlerTimeoutResponse, bytes)
    /\ UNCHANGED <<open, sock, buf, n, readOutcome, request, flushes, closes,
                   reads, parserCalls, parserInput, handlerCalls>>
    /\ timer' = None
    /\ UNCHANGED <<sockCfg, acceptOutcome, rx>>
    /\ UNCHANGED cfgVars

(***************************************************************************)
(* HttpServer::serve: write_all, flush, close                              *)
(***************************************************************************)
SetLast(seq, field, val) == [seq EXCEPT ![Len(seq)][field] = val]

\* WriteDone skipping the flush when write_all failed: straight to close
WriteDone_SkipFlush(ok) ==
    /\ pc = "writing"
    /\ writes' = SetLast(writes, "status", IF ok THEN "ok" ELSE "err")
    /\ log' = IF ~ok /\ result.ok
              THEN Append(log, Warn("Failed to write response"))
              ELSE log
    /\ IF ok
       THEN /\ pc' = "flushing"
            /\ flushes' = Append(flushes, [status |-> "pending"])
            /\ UNCHANGED <<closes, sock, open, sockCfg>>
       ELSE /\ pc' = "idle"
            /\ closes' = closes + 1
            /\ sock' = "closed"
            /\ open' = open - 1
            /\ sockCfg' = None
            /\ UNCHANGED flushes
    /\ UNCHANGED <<buf, n, readOutcome, request, fut, handlerOutcome,
                   response, result, reads, parserCalls, parserInput,
                   handlerCalls, timer, acceptOutcome, rx>>
    /\ UNCHANGED cfgVars

\* WriteDone leaving the loop when write_all fails
WriteDone_Aborts(ok) ==
    /\ pc = "writing"
    /\ pc' = IF ok THEN "flushing" ELSE "stopped"
    /\ writes' = SetLast(writes, "status", IF ok THEN "ok" ELSE "err")
    /\ log' = IF ~ok /\ result.ok
              THEN Append(log, Warn("Failed to write response"))
              ELSE log
    /\ flushes' = IF ok THEN Append(flushes, [status |-> "pending"]) ELSE flushes
    /\ UNCHANGED <<open, sock, buf, n, readOutcome, request, fut,
                   handlerOutcome, response, result, closes, reads,
                   parserCalls, parserInput, handlerCalls>>
    /\ UNCHANGED <<sockCfg, timer, acceptOutcome, rx>>
    /\ UNCHANGED cfgVars

\* write_all returned; a failure is logged on the Ok(response_bytes) arm and
\* ignored on the Err(e) arm; socket.flush() is awaited
WriteDone(ok) ==
    /\ pc = "writing"
    /\ pc' = "flushing"
    /\ writes' = SetLast(writes, "status", IF ok THEN "ok" ELSE "err")
    /\ log' = IF ~ok /\ result.ok
              THEN Append(log, Warn("Failed to write response"))
              ELSE log
    /\ flushes' = Append(flushes, [status |-> "pending"])
    /\ UNCHANGED <<open, sock, buf, n, readOutcome, request, fut,
                   handlerOutcome, response, result, closes, reads,
                   parserCalls, parserInput, handlerCalls>>
    /\ UNCHANGED <<sockCfg, timer, acceptOutcome, rx>>
    /\ UNCHANGED cfgVars

\* FlushDone without the socket.close() call: the socket is only dropped
FlushDone_NoClose(ok) ==
    /\ pc = "flushing"
    /\ pc' = "idle"
    /\ flushes' = SetLast(flushes, "status", IF ok THEN "ok" ELSE "err")
    /\ log' = IF ~ok /\ result.ok
              THEN Append(log, Warn("Failed to flush response"))
              ELSE log
    /\ sock' = "dropped"
    /\ open' = open - 1
    /\ sockCfg' = None
    /\ UNCHANGED <<buf, n, readOutcome, request, fut, handlerOutcome,
                   response, result, writes, reads, parserCalls, parserInput,
                   handlerCalls, closes, timer, acceptOutcome, rx>>
    /\ UNCHANGED cfgVars

\* flush returned; a failure is logged on the Ok(response_bytes) arm and
\* ignored on the Err(e) arm; socket.close(); end of the loop body
FlushDone(ok) ==
    /\ pc = "flushing"
    /\ pc' = "idle"
    /\ flushes' = SetLast(flushes, "status", IF ok THEN "ok" ELSE "err")
    /\ log' = IF ~ok /\ result.ok
              THEN Append(log, Warn("Failed to flush response"))
              ELSE log
    /\ closes' = closes + 1
    /\ sock' = "closed"
    /\ open' = open - 1
    /\ UNCHANGED <<buf, n, readOutcome, request, fut, handlerOutcome,
                   response, result, writes, reads, parserCalls, parserInput,
                   handlerCalls>>
    /\ sockCfg' = None
    /\ UNCHANGED <<timer, acceptOutcome, rx>>
    /\ UNCHANGED cfgVars

Next ==
    \/ NewSocket
    \/ AcceptOk
    \/ \E e \in {Timeout, TransportError} : AcceptErr(e)
    \/ BackoffDone
    \/ ReadZero
    \/ ReadErr
    \/ ReadTimeout
    \/ \E data \in PeerData : ReadOk(data)
    \/ \E resp \in HandlerResponses : \E bytes \in build_bytes(resp) : HandlerOk(resp, bytes)
    \/ \E bytes \in build_bytes(HandlerErrorResponse) : HandlerErr(bytes)
    \/ \E bytes \in build_bytes(HandlerTimeoutResponse) : HandlerTimeout(bytes)
    \/ \E ok \in BOOLEAN : WriteDone(ok)
    \/ \E ok \in BOOLEAN : FlushDone(ok)

Spec == Init /\ [][Next]_vars

\* every await of serve returns: accept, read and the handler are bounded by
\* their timeouts, the Timer fires, write_all and flush return
LiveSpec == Spec /\ WF_vars(Next)

TypeOK ==
    /\ pc \in {"idle", "accepting", "backoff", "reading", "handling",
               "writing", "flushing"}
    /\ open \in 0..1
    /\ buf \in [1..REQ_SIZE -> Byte]
    /\ n \in 0..REQ_SIZE

(***************************************************************************)
(* Properties                                                              *)
(***************************************************************************)
ParseFailed == parserCalls >= 1 /\ ~try_from(parserInput.bytes).ok
ParseSucceeded == parserCalls >= 1 /\ try_from(parserInput.bytes).ok
LiteralWritten == \E i \in 1..Len(writes) : writes[i].path = "literal"
Ended == pc = "idle" /\ sock \in {"dropped", "closed"}

\* C1: a connection whose read returned n > 0 bytes gets exactly one
\* write_all call before socket.close(), whatever the parser and the handler
\* did; a connection whose read returned 0 bytes, failed or timed out gets
\* none.
C1_OneWriteIffBytesRead ==
    /\ Len(writes) <= 1
    /\ (sock = "closed" => readOutcome = "ok" /\ Len(writes) = 1)
    /\ (Ended /\ readOutcome = "ok" => sock = "closed" /\ Len(writes) = 1)
    /\ (readOutcome \in {"zero", "err", "timeout"} => writes = <<>>)

C1_Witness ==
    /\ Ended
    /\ readOutcome = "ok"
    /\ handlerOutcome = "timeout"
    /\ sock = "closed"
    /\ Len(writes) = 1

\* C2: the literal error_response is what is written exactly when the parser
\* failed (ParseError or Overflow); then the handler was not invoked, and no
\* handler outcome leads to the literal being written.
C2_LiteralIffParseFails ==
    /\ LiteralWritten <=> ParseFailed
    /\ ParseFailed => /\ try_from(parserInput.bytes).err \in {ParseError, Overflow}
                      /\ result = [ok |-> FALSE, err |-> try_from(parserInput.bytes).err]
                      /\ handlerCalls = 0
                      /\ handlerOutcome = "none"
                      /\ writes[1].bytes = error_response
    /\ handlerOutcome # "none" => ~LiteralWritten /\ result.ok

C2_Witness ==
    /\ Ended
    /\ ParseFailed
    /\ try_from(parserInput.bytes).err = Overflow
    /\ LiteralWritten
    /\ handlerCalls = 0

\* C3: after a handler timeout the response emitted has status 400, the one
\* header Content-Type: text/plain and the body "Request Timeout".
C3_TimeoutResponse ==
    handlerOutcome = "timeout" =>
        /\ as_u16(response.status_code) = 400
        /\ response.headers = <<[name |-> "Content-Type", value |-> "text/plain"]>>
        /\ response.body = [kind |-> "Text", data |-> "Request Timeout"]
        /\ Len(writes) = 1
        /\ writes[1].bytes = Serialize(response)

C3_Witness ==
    /\ handlerOutcome = "timeout"
    /\ Ended
    /\ writes[1].status = "ok"
    /\ as_u16(response.status_code) = 400

\* C4: after a handler failure the response emitted has status 500, the one
\* header Content-Type: text/plain and the body "Internal Server Error", and
\* it comes from build_bytes, not from the literal error_response.
C4_HandlerFailureResponse ==
    handlerOutcome = "err" =>
        /\ as_u16(response.status_code) = 500
        /\ response.headers = <<[name |-> "Content-Type", value |-> "text/plain"]>>
        /\ response.body = [kind |-> "Text", data |-> "Internal Server Error"]
        /\ result.ok
        /\ Len(writes) = 1
        /\ writes[1].path = "built"
        /\ writes[1].bytes = Serialize(response)

C4_Witness ==
    /\ handlerOutcome = "err"
    /\ Ended
    /\ writes[1].path = "built"
    /\ as_u16(response.status_code) = 500

\* C5: a read of zero bytes ends the connection at once: nothing is written,
\* the parser and the handler are not invoked, nothing is logged.
C5_ZeroRead ==
    readOutcome = "zero" =>
        /\ Ended
        /\ open = 0
        /\ writes = <<>>
        /\ flushes = <<>>
        /\ parserCalls = 0
        /\ handlerCalls = 0
        /\ log = <<>>

C5_Witness == readOutcome = "zero" /\ Ended /\ reads = 1

\* C6: a read that fails or times out is logged and ends the connection at
\* once: the parser and the handler are not invoked and nothing is written.
C6_ReadFailure ==
    readOutcome \in {"err", "timeout"} =>
        /\ Ended
        /\ open = 0
        /\ log = <<[level |-> "warn",
                    msg |-> IF readOutcome = "err" THEN "Read error"
                            ELSE "Socket read timeout"]>>
        /\ parserCalls = 0
        /\ handlerCalls = 0
        /\ writes = <<>>
        /\ flushes = <<>>

C6_Witness == readOutcome = "timeout" /\ Ended /\ reads = 1 /\ Len(log) = 1

\* C7: a handler response that serializes to more than MAX_RESPONSE_SIZE
\* bytes makes the build fail with Overflow, and no byte of it is written.
C7_OverflowFailsClosed ==
    (handlerOutcome = "ok" /\ ~Fits(response)) =>
        /\ ~result.ok
        /\ result.err = Overflow
        /\ \A i \in 1..Len(writes) :
               writes[i].path = "built" => writes[i].bytes = ""

\* C8: at most one TcpSocket is alive at any time, and an accept begins only
\* when no connection is being read, handled or responded to.
C8_OneConnectionAtATime ==
    /\ open <= 1
    /\ (pc = "idle" => open = 0 /\ sock \in {"none", "dropped", "closed"})
    /\ (pc \in {"accepting", "backoff"} =>
            /\ open = 1
            /\ sock \in {"listening", "failed"}
            /\ reads = 0
            /\ fut = "none"
            /\ writes = <<>>)
    /\ (pc \in {"reading", "handling", "writing", "flushing"} =>
            open = 1 /\ sock = "connected")

C8_Witness == pc = "accepting" /\ open = 1 /\ buf[1] # "NUL"

\* C9: whatever accept, read, the parser, the handler, write_all and flush
\* return, the iteration ends, either closed after one write_all or dropped
\* without any write, and the server comes back to accept again and again.
C9_ServerNeverStops ==
    /\ [](Ended => \/ sock = "closed" /\ Len(writes) = 1 /\ closes = 1
                   \/ sock = "dropped" /\ writes = <<>> /\ closes = 0)
    /\ (pc # "idle" ~> Ended)
    /\ []<>(pc = "accepting")

\* the server is accepting again after an earlier connection was read (its
\* request line is still in buf)
C9_Witness ==
    /\ pc = "accepting"
    /\ buf[1] = "REQ"
    /\ open = 1

\* C10: handle_request is called once on a connection whose request parsed
\* and never on any other; after a handler timeout the future is dropped,
\* there is no second call, and what is written is the timeout response.
C10_HandlerOncePerParsedRequest ==
    /\ handlerCalls = (IF ParseSucceeded THEN 1 ELSE 0)
    /\ (handlerCalls = 1 => fut \in {"pending", "done", "dropped"})
    /\ (handlerCalls = 0 => fut = "none" /\ handlerOutcome = "none")
    /\ (handlerOutcome = "timeout" =>
            /\ fut = "dropped"
            /\ handlerCalls = 1
            /\ Len(writes) = 1
            /\ response.body.data = "Request Timeout"
            /\ writes[1].bytes = Serialize(response))

C10_Witness ==
    /\ Ended
    /\ handlerOutcome = "timeout"
    /\ handlerCalls = 1
    /\ fut = "dropped"

\* C11 (as stated): the task suspends only while accepting, reading and
\* waiting on the handler, and each of these waits carries its phase timeout.
C11_OnlyThreeSuspensions ==
    /\ pc \in {"idle", "accepting", "reading", "handling"}
    /\ (pc = "accepting" => sockCfg.timeout = Secs(self.timeouts.accept_timeout))
    /\ (pc = "reading" => timer = Secs(self.timeouts.read_timeout))
    /\ (pc = "handling" => timer = Secs(self.timeouts.handler_timeout))

\* C11 (amended): the task suspends while accepting, reading and waiting on
\* the handler, each under its own phase timeout, and also on the 100 ms
\* Timer after a failed accept and on write_all and flush, which serve does
\* not wrap in a timeout; an operation that timed out is abandoned: the read
\* is not issued again, the handler future is dropped and not called again.
C11_SuspensionPoints ==
    /\ pc \in {"idle", "accepting", "backoff", "reading", "handling",
               "writing", "flushing"}
    /\ (pc = "accepting" =>
            /\ sockCfg.timeout = Secs(self.timeouts.accept_timeout)
            /\ timer = None)
    /\ (pc = "reading" => timer = Secs(self.timeouts.read_timeout))
    /\ (pc = "handling" => timer = Secs(self.timeouts.handler_timeout))
    /\ (pc = "backoff" => timer = [millis |-> 100])
    /\ (pc \in {"writing", "flushing"} => timer = None)
    /\ (acceptOutcome = Timeout => pc \in {"backoff", "idle"} /\ reads = 0)
    /\ (readOutcome = "timeout" => Ended /\ reads = 1 /\ parserCalls = 0)
    /\ (handlerOutcome = "timeout" =>
            /\ pc \in {"writing", "flushing", "idle"}
            /\ fut = "dropped"
            /\ handlerCalls = 1)

C11_Witness ==
    /\ pc = "flushing"
    /\ handlerOutcome = "timeout"
    /\ fut = "dropped"
    /\ timer = None

\* C12: a failed accept (timeout or transport error) logs one warning, is
\* followed by no read, parse, handler call, write, flush or close, and the
\* server starts a new accept.
C12_AcceptFailure ==
    /\ [](acceptOutcome \in {Timeout, TransportError} =>
            /\ pc \in {"backoff", "idle"}
            /\ log = <<[level |-> "warn", msg |-> "Accept error"]>>
            /\ reads = 0
            /\ readOutcome = "none"
            /\ parserCalls = 0
            /\ handlerCalls = 0
            /\ writes = <<>>
            /\ flushes = <<>>
            /\ closes = 0)
    /\ (pc = "backoff" ~> pc = "accepting")

C12_Witness ==
    /\ acceptOutcome = Timeout
    /\ pc = "idle"
    /\ sock = "dropped"
    /\ Len(log) = 1

\* C13: new gives the timeouts 10/30/60, with_timeouts exactly the triple it
\* was given; serve never changes port or timeouts, and every accept, read
\* and handler wait uses the values of the construction.
C13_ConfigFixed ==
    LET expected == IF built.ctor = "new"
                    THEN [accept_timeout |-> 10, read_timeout |-> 30,
                          handler_timeout |-> 60]
                    ELSE built.timeouts
    IN  /\ self = [port |-> built.port, timeouts |-> expected]
        /\ (sockCfg # None =>
                sockCfg = [port |-> built.port,
                           timeout |-> [secs |-> expected.accept_timeout]])
        /\ (pc = "reading" => timer = [secs |-> expected.read_timeout])
        /\ (pc = "handling" => timer = [secs |-> expected.handler_timeout])

C13_Witness ==
    /\ built.ctor = "with_timeouts"
    /\ pc = "handling"
    /\ timer = [secs |-> 45]
    /\ buf[1] = "REQ"
    /\ buf[REQ_SIZE] # "NUL"

\* C14: responding is write_all, then flush, then close, each once: the
\* flush is issued once write_all has returned, whether it succeeded or not,
\* and close is called once flush has returned, whether it succeeded or not;
\* no failure leads to a second write or flush.
C14_WriteFlushClose ==
    /\ Len(writes) <= 1 /\ Len(flushes) <= 1 /\ closes <= 1
    /\ (pc = "writing" <=> Len(writes) = 1 /\ writes[1].status = "pending")
    /\ (pc = "flushing" <=> Len(flushes) = 1 /\ flushes[1].status = "pending")
    /\ (Len(writes) = 1 /\ writes[1].status \in {"ok", "err"} <=> Len(flushes) = 1)
    /\ (Len(flushes) = 1 /\ flushes[1].status \in {"ok", "err"} <=> closes = 1)
    /\ (closes = 1 <=> sock = "closed")

C14_Witness ==
    /\ Ended
    /\ Len(writes) = 1
    /\ Len(flushes) = 1
    /\ writes[1].status = "err"
    /\ flushes[1].status = "err"
    /\ closes = 1
    /\ sock = "closed"

\* C15: when an iteration that accepted a connection is over, its socket is
\* gone (closed by socket.close() after a response, dropped otherwise), on
\* every path, and the next accept runs on a new socket, the only one alive.
C15_ClosedBeforeNextAccept ==
    /\ (pc = "idle" /\ acceptOutcome = "ok" =>
            /\ open = 0
            /\ sockCfg = None
            /\ readOutcome \in {"zero", "err", "timeout", "ok"}
            /\ (readOutcome \in {"zero", "err", "timeout"} =>
                    sock = "dropped" /\ closes = 0)
            /\ (readOutcome = "ok" => sock = "closed" /\ closes = 1))
    /\ (pc = "accepting" => open = 1 /\ sock = "listening" /\ acceptOutcome = "none")

C15_Witness ==
    /\ pc = "idle"
    /\ acceptOutcome = "ok"
    /\ ParseFailed
    /\ sock = "closed"
    /\ open = 0

\* C16 (as stated): when a read starts, the request buffer holds no byte of
\* an earlier connection.
C16_BufferZeroedAtRead ==
    pc = "reading" => \A i \in 1..REQ_SIZE : buf[i] = "NUL"

\* C16 (amended): the request buffer is never zeroed or reinitialised between
\* connections: the only step that changes it is a read that returns n > 0
\* bytes, which overwrites its first n bytes and leaves the others as earlier
\* connections left them.
C16_BufferReused ==
    [][ \/ buf' = buf
        \/ /\ pc = "reading"
           /\ readOutcome' = "ok"
           /\ n' > 0
           /\ \A i \in 1..REQ_SIZE :
                  buf'[i] = IF i <= n' THEN rx'.bytes[i] ELSE buf[i] ]_vars

\* a read has returned fewer bytes than the buffer holds and the last cell
\* still has a byte of an earlier connection
C16_Witness ==
    /\ readOutcome = "ok"
    /\ n < REQ_SIZE
    /\ buf[REQ_SIZE] # "NUL"

C18_OneReadPerConnection ==
    /\ reads <= 1
    /\ (acceptOutcome = "ok" <=> reads = 1)
    /\ (pc = "reading" <=> reads = 1 /\ readOutcome = "none")
    /\ (parserCalls >= 1 => parserCalls = 1 /\ reads = 1 /\ readOutcome = "ok")
    /\ (readOutcome = "ok" => parserCalls = 1 /\ pc # "reading")

\* the read returned a request line only: no header block end yet
C18_Witness ==
    /\ Ended
    /\ readOutcome = "ok"
    /\ rx.bytes = <<"REQ">>
    /\ reads = 1
    /\ parserCalls = 1

(***************************************************************************)
(* Reading an HTTP message as a peer does                                  *)
(***************************************************************************)
\* first position >= i at which pat occurs in str, 0 if none
RECURSIVE IndexOf(_, _, _)
IndexOf(str, pat, i) ==
    IF i + Len(pat) - 1 > Len(str) THEN 0
    ELSE IF SubSeq(str, i, i + Len(pat) - 1) = pat THEN i
    ELSE IndexOf(str, pat, i + 1)

\* the bytes after the first empty line
BodyOf(str) == SubSeq(str, IndexOf(str, "\r\n\r\n", 1) + 4, Len(str))

DigitValue(ch) == CHOOSE d \in 0..9 : ToString(d) = ch

\* value of the decimal number that starts at position i of str
RECURSIVE ParseNat(_, _, _)
ParseNat(str, i, acc) ==
    IF i <= Len(str) /\ \E d \in 0..9 : ToString(d) = SubSeq(str, i, i)
    THEN ParseNat(str, i + 1, 10 * acc + DigitValue(SubSeq(str, i, i)))
    ELSE acc

\* value of the Content-Length header
ContentLengthOf(str) ==
    ParseNat(str, IndexOf(str, "Content-Length: ", 1) + Len("Content-Length: "), 0)

\* C19: the literal fallback is the hard-coded sequence of the spec, and its
\* Content-Length (21) is the number of bytes of its body.
C19_LiteralWellFormed ==
    \A i \in 1..Len(writes) :
        writes[i].path = "literal" =>
            /\ writes[i].bytes
                 = "HTTP/1.1 500 Internal Server Error\r\nContent-Type: text/plain\r\nContent-Length: 21\r\n\r\nInternal Server Error"
            /\ BodyOf(writes[i].bytes) = "Internal Server Error"
            /\ ContentLengthOf(writes[i].bytes) = 21
            /\ ContentLengthOf(writes[i].bytes) = Len(BodyOf(writes[i].bytes))

C19_Witness ==
    /\ Ended
    /\ LiteralWritten
    /\ writes[1].status = "ok"
    /\ ContentLengthOf(writes[1].bytes) = Len("Internal Server Error")

====
